---- MODULE Spec2Model ----
(***************************************************************************)
(* Voice relay and turn-taking of voice-agent-rest.                        *)
(*                                                                         *)
(* Two deployments share the relay logic:                                  *)
(*   mode = "server"  src/server.js : one voice session per socket.io      *)
(*                    connection, kept in the activeVoiceSessions map      *)
(*   mode = "cli"     src/index.js, src/final.js : one process-wide        *)
(*                    session wired to the microphone and the speaker      *)
(*                                                                         *)
(* Spec is one relay session end to end (the CLI process, or one client of  *)
(* the server and its session) with the audio chunks and frames in full.   *)
(* SpecFanout is the server with two clients and MaxSessions sessions.     *)
(*                                                                         *)
(* A voice session is a handle 1..MaxSessions. Its closure variables       *)
(* isConnected / isAIResponding are the functions of the same name. The    *)
(* upstream endpoint, the client sockets, the microphone and the operating *)
(* system are the environment: they choose which event comes next.         *)
(*                                                                         *)
(* Observation variables (written by every handler, never read by one):    *)
(*   last     the event the last handler handled                           *)
(*   out      what the last handler emitted (socket.emit, device calls)    *)
(*   upcalls  what the last handler called on an upstream session          *)
(*   calls    per session, the end-of-input / close calls made so far      *)
(*   played   per session, the audio chunks handed to emit / playback      *)
(*   chunkSince  per session, an audio chunk was handled since the last    *)
(*            connect / turn-complete / error / close                      *)
(*   signalled  per session, of the mute / unmute signals given so far     *)
(*            the last was the mute (FALSE while none was given)           *)
(*                                                                         *)
(* SpecInstruction is generateSystemInstruction alone, applied to a list   *)
(* of documents; the relay specifications leave the list empty.            *)
(***************************************************************************)
EXTENDS Integers, Sequences, FiniteSets, TLC

\* ---- bounds ----
MaxSessions == 2
MaxChunks == 3
MaxFrames == 2
MaxParts == 2
MaxDocs == 2
MaxStrLen == 1

\* socket.id of the client connections, and the owner of the CLI's session.
Sockets == {"sockA", "sockB"}
Cli == "cli"
Handles == 1..MaxSessions
Frames == 1..MaxFrames
SessionIds == {"k1"}

VARIABLES
  mode,                \* "server" | "cli"
  agentSessions,       \* server.js:36  ids with stored agent data
  sock,                \* per socket: "new" | "up" | "down"
  activeVoiceSessions, \* server.js:155 socket -> handle, 0 = no entry
  owner,               \* per handle: owning socket, Cli, or "none" before it exists
  conn,                \* per handle: upstream connection as the endpoint sees it
  pending,             \* per handle: the caller is suspended in await connect
  isConnected,         \* per handle: closure flag
  isAIResponding,      \* per handle: closure flag
  produced,            \* per handle: audio chunks the upstream has sent
  mic,                 \* CLI: "idle" | "running" | "paused" | "stopped"
  speaker,             \* CLI: "open" | "ended"
  proc,                \* CLI: "connecting" | "running" | "exited" | "crashed" | "killed"
  last, out, upcalls, calls, played, chunkSince,
  signalled,           \* per handle: the last mute / unmute signal given was the mute
  documents,           \* sessionData.documents of the instruction being built
  systemInstruction    \* the text generateSystemInstruction returned, <<>> before

vars == <<mode, agentSessions, sock, activeVoiceSessions, owner, conn, pending,
          isConnected, isAIResponding, produced, mic, speaker, proc,
          last, out, upcalls, calls, played, chunkSince, signalled,
          documents, systemInstruction>>

docVars == <<documents, systemInstruction>>

serverVars == <<agentSessions, sock, activeVoiceSessions>>
cliVars == <<mic, speaker, proc>>

\* ---- small helpers ----
Emit(c, ev) == [to |-> c, ev |-> ev, chunk |-> 0]
EmitChunk(c, id) == [to |-> c, ev |-> "audio", chunk |-> id]
UpCall(s, what, f) == [s |-> s, what |-> what, frame |-> f]
Event(kind, s, c) == [kind |-> kind, s |-> s, c |-> c, frame |-> 0]
FrameEvent(s, c, f) == [kind |-> "audio-data", s |-> s, c |-> c, frame |-> f]

RECURSIVE SumProduced(_, _)
SumProduced(f, n) == IF n = 0 THEN 0 ELSE f[n] + SumProduced(f, n - 1)
nChunks == SumProduced(produced, MaxSessions)

\* Names of the turn-taking side effects in the two deployments.
MuteEv == IF mode = "server" THEN "ai-speaking-start" ELSE "mic.pause"
UnmuteEv == IF mode = "server" THEN "ai-speaking-end" ELSE "mic.resume"

InitRelay ==
  /\ mode \in {"server", "cli"}
  /\ agentSessions = {}
  /\ sock = [c \in Sockets |-> "new"]
  /\ activeVoiceSessions = [c \in Sockets |-> 0]
  /\ owner = [s \in Handles |-> IF mode = "cli" /\ s = 1 THEN Cli ELSE "none"]
  /\ conn = [s \in Handles |-> IF mode = "cli" /\ s = 1 THEN "connecting" ELSE "none"]
  /\ pending = [s \in Handles |-> mode = "cli" /\ s = 1]
  /\ isConnected = [s \in Handles |-> FALSE]
  /\ isAIResponding = [s \in Handles |-> FALSE]
  /\ produced = [s \in Handles |-> 0]
  /\ mic = "idle"
  /\ speaker = "open"
  /\ proc = "connecting"
  /\ last = Event("init", 0, "none")
  /\ out = <<>>
  /\ upcalls = <<>>
  /\ calls = [s \in Handles |-> <<>>]
  /\ played = [s \in Handles |-> <<>>]
  /\ chunkSince = [s \in Handles |-> FALSE]
  /\ signalled = [s \in Handles |-> FALSE]

Init ==
  /\ InitRelay
  /\ documents = <<>>
  /\ systemInstruction = <<>>

\* ---- the upstream message and its handling (onmessage) ----

\* message.serverContent.modelTurn.parts is hasParts / parts (TRUE: the part has
\* inlineData.data), message.serverContent.turnComplete, message.usageMetadata.
PartSeqs == UNION {[1..n -> BOOLEAN] : n \in 0..MaxParts}
Messages ==
  {[hasParts |-> h, parts |-> p, turnComplete |-> t, usage |-> u] :
     h \in BOOLEAN, p \in PartSeqs, t \in BOOLEAN, u \in BOOLEAN}
\* Without modelTurn there are no parts.
WellFormed == {m \in Messages : m.hasParts \/ m.parts = <<>>}
\* The messages of the fan-out specification: one field set, at most one part.
ShortMessages ==
  {m \in WellFormed :
     /\ Len(m.parts) <= 1
     /\ ~(m.hasParts /\ m.turnComplete) /\ ~(m.hasParts /\ m.usage)
     /\ ~(m.turnComplete /\ m.usage)}

DataCount(parts, n) == Cardinality({i \in 1..n : parts[i]})

\* The chunk ids the upstream gives the parts of one message: the session's next
\* numbers, in order; 0 for a part that carries no data.
PartIds(parts, base) ==
  [i \in 1..Len(parts) |-> IF parts[i] THEN base + DataCount(parts, i) ELSE 0]

\* A chain that tests turnComplete before the parts.
Classify_TurnCompleteFirst(m) ==
  IF m.turnComplete THEN "turnComplete"
  ELSE IF m.hasParts THEN "audio"
  ELSE IF m.usage THEN "usage"
  ELSE "none"

\* The if / else-if chain of onmessage.
Classify(m) ==
  IF m.hasParts THEN "audio"
  ELSE IF m.turnComplete THEN "turnComplete"
  ELSE IF m.usage THEN "usage"
  ELSE "none"

\* A turn state that audio does not set.
TurnAfter_AudioKeepsIdle(resp, kind) ==
  CASE kind = "turnComplete" -> FALSE
    [] OTHER -> resp

\* A turn state that a usage message resets.
TurnAfter_UsageEndsTurn(resp, kind) ==
  CASE kind = "audio" -> TRUE
    [] kind \in {"turnComplete", "usage"} -> FALSE
    [] OTHER -> resp

\* isAIResponding after a message of the given kind.
TurnAfter(resp, kind) ==
  CASE kind = "audio" -> TRUE
    [] kind = "turnComplete" -> FALSE
    [] OTHER -> resp


\* A mute signal on every audio message.
TurnEmits_MuteAlways(c, resp, kind) ==
  CASE kind = "audio" -> <<Emit(c, MuteEv)>>
    [] kind = "turnComplete" /\ resp -> <<Emit(c, UnmuteEv)>>
    [] OTHER -> <<>>

\* An unmute signal on every turn-complete message.
TurnEmits_UnmuteAlways(c, resp, kind) ==
  CASE kind = "audio" /\ ~resp -> <<Emit(c, MuteEv)>>
    [] kind = "turnComplete" -> <<Emit(c, UnmuteEv)>>
    [] OTHER -> <<>>

\* The mute / unmute side effect of a message of the given kind.
TurnEmits(c, resp, kind) ==
  CASE kind = "audio" /\ ~resp -> <<Emit(c, MuteEv)>>
    [] kind = "turnComplete" /\ resp -> <<Emit(c, UnmuteEv)>>
    [] OTHER -> <<>>


\* The parts of a message handed on last to first.
RECURSIVE ForEachPart_Reversed(_, _)
ForEachPart_Reversed(c, ids) ==
  IF ids = <<>> THEN <<>>
  ELSE ForEachPart_Reversed(c, Tail(ids))
       \o (IF Head(ids) # 0 THEN <<EmitChunk(c, Head(ids))>> ELSE <<>>)

\* parts.forEach: one emit / speaker.write per part that has data, in order.
RECURSIVE ForEachPart(_, _)
ForEachPart(c, ids) ==
  IF ids = <<>> THEN <<>>
  ELSE (IF Head(ids) # 0 THEN <<EmitChunk(c, Head(ids))>> ELSE <<>>)
       \o ForEachPart(c, Tail(ids))

UsageEmits(c, kind) ==
  IF kind = "usage" THEN <<Emit(c, IF mode = "server" THEN "token-usage" ELSE "console.log")>>
  ELSE <<>>

ChunksOf(emits) ==
  LET a == SelectSeq(emits, LAMBDA e : e.ev = "audio")
  IN  [i \in 1..Len(a) |-> a[i].chunk]

\* The microphone after the device calls among the emits (mic library: start,
\* pause, resume, stop).
RECURSIVE MicAfter(_, _)
MicAfter(m, emits) ==
  IF emits = <<>> THEN m
  ELSE LET e == Head(emits).ev
           m2 == CASE e = "mic.start" -> "running"
                   [] e = "mic.pause" -> "paused"
                   [] e = "mic.resume" -> "running"
                   [] e = "mic.stop" -> "stopped"
                   [] OTHER -> m
       IN  MicAfter(m2, Tail(emits))

\* Which of mute / unmute was signalled last, after the emits.
RECURSIVE SignalAfter(_, _)
SignalAfter(sig, emits) ==
  IF emits = <<>> THEN sig
  ELSE SignalAfter(CASE Head(emits).ev = MuteEv -> TRUE
                     [] Head(emits).ev = UnmuteEv -> FALSE
                     [] OTHER -> sig,
                   Tail(emits))

\* The process is there to run a handler (the server never exits).
Alive == mode = "server" \/ proc \in {"connecting", "running"}

OnMessage(s, m, cap) ==
  LET kind == Classify(m)
      c == owner[s]
      ids == IF m.hasParts THEN PartIds(m.parts, produced[s]) ELSE <<>>
      emits == TurnEmits(c, isAIResponding[s], kind)
               \o (IF kind = "audio" THEN ForEachPart(c, ids) ELSE <<>>)
               \o UsageEmits(c, kind)
  IN
  /\ Alive
  /\ conn[s] \in {"open", "closing"}
  /\ nChunks + DataCount(m.parts, Len(m.parts)) <= cap
  /\ produced' = [produced EXCEPT ![s] = @ + DataCount(m.parts, Len(m.parts))]
  /\ isAIResponding' = [isAIResponding EXCEPT ![s] = TurnAfter(@, kind)]
  /\ mic' = MicAfter(mic, emits)
  /\ out' = emits
  /\ played' = [played EXCEPT ![s] = @ \o ChunksOf(emits)]
  /\ chunkSince' = [chunkSince EXCEPT ![s] =
                      CASE kind = "audio" -> TRUE
                        [] kind = "turnComplete" -> FALSE
                        [] OTHER -> @]
  /\ upcalls' = <<>>
  /\ signalled' = [signalled EXCEPT ![s] = SignalAfter(@, emits)]
  /\ last' = Event(kind, s, c)
  /\ UNCHANGED <<mode, docVars, serverVars, owner, conn, pending, isConnected, speaker, proc, calls>>

\* io.on("connection"): a client socket connects.
Connection(c) ==
  /\ mode = "server"
  /\ sock[c] = "new"
  /\ sock' = [sock EXCEPT ![c] = "up"]
  /\ last' = Event("connection", 0, c)
  /\ out' = <<>>
  /\ upcalls' = <<>>
  /\ UNCHANGED <<mode, docVars, signalled, agentSessions, activeVoiceSessions, owner, conn, pending,
                 isConnected, isAIResponding, produced,  calls, played,
                 chunkSince, cliVars>>

\* POST /api/documents, POST /api/agent-type: the session id gets an entry.
StoreAgentSession(k) ==
  /\ mode = "server"
  /\ k \notin agentSessions
  /\ agentSessions' = agentSessions \cup {k}
  /\ last' = Event("api", 0, "none")
  /\ out' = <<>>
  /\ upcalls' = <<>>
  /\ UNCHANGED <<mode, docVars, signalled, sock, activeVoiceSessions, owner, conn, pending,
                 isConnected, isAIResponding, produced,  calls, played,
                 chunkSince, cliVars>>

\* The handle createVoiceSession gives its next session.
FreeHandles(H) == {s \in H : conn[s] = "none"}
NextHandle(H) == CHOOSE s \in FreeHandles(H) : \A t \in FreeHandles(H) : s <= t

\* socket.on("start-voice-session"), up to the await of createVoiceSession:
\* not found, or a new session whose connect is under way.
StartVoiceSession(c, k, H) ==
  /\ mode = "server"
  /\ sock[c] = "up"
  /\ IF k \notin agentSessions
     THEN /\ out' = <<Emit(c, "error")>>
          /\ last' = Event("start-notfound", 0, c)
          /\ UNCHANGED <<owner, conn, pending>>
     ELSE /\ FreeHandles(H) # {}
          /\ owner' = [owner EXCEPT ![NextHandle(H)] = c]
          /\ conn' = [conn EXCEPT ![NextHandle(H)] = "connecting"]
          /\ pending' = [pending EXCEPT ![NextHandle(H)] = TRUE]
          /\ out' = <<>>
          /\ last' = Event("start", NextHandle(H), c)
  /\ upcalls' = <<>>
  /\ UNCHANGED <<mode, docVars, signalled, serverVars, isConnected, isAIResponding, produced, calls, played, chunkSince, cliVars>>

\* callbacks.onopen.
OnOpen(s) ==
  LET emits == <<Emit(owner[s], IF mode = "server" THEN "voice-connected" ELSE "mic.start")>>
  IN
  /\ Alive
  /\ conn[s] = "connecting"
  /\ conn' = [conn EXCEPT ![s] = "open"]
  /\ isConnected' = [isConnected EXCEPT ![s] = TRUE]
  /\ out' = emits
  /\ mic' = MicAfter(mic, emits)
  /\ upcalls' = <<>>
  /\ last' = Event("open", s, owner[s])
  /\ UNCHANGED <<mode, docVars, signalled, serverVars, owner, pending, isAIResponding, produced, speaker, proc, calls, played, chunkSince>>


\* An entry recorded under every connection id.
RegistryAfterSet_AllKeys(reg, c, s) == [x \in Sockets |-> s]

\* A connect whose session is not recorded.
RegistryAfterSet_NotRecorded(reg, c, s) == reg

\* activeVoiceSessions.set(socket.id, voiceSession)
RegistryAfterSet(reg, c, s) == [reg EXCEPT ![c] = s]

\* ai.live.connect resolves: the code after the await runs. Server: the rest of
\* the start-voice-session handler. CLI: the handlers of the microphone stream
\* and of SIGINT are registered.
ConnectResolved(s) ==
  /\ Alive
  /\ pending[s]
  /\ conn[s] \in {"open", "closed"}
  /\ pending' = [pending EXCEPT ![s] = FALSE]
  /\ IF mode = "server"
     THEN /\ activeVoiceSessions' = RegistryAfterSet(activeVoiceSessions, owner[s], s)
          /\ out' = <<Emit(owner[s], "voice-session-started")>>
          /\ proc' = proc
     ELSE /\ proc' = "running"
          /\ out' = <<>>
          /\ UNCHANGED activeVoiceSessions
  /\ upcalls' = <<>>
  /\ last' = Event("resolved", s, owner[s])
  /\ UNCHANGED <<mode, docVars, signalled, agentSessions, sock, owner, conn, isConnected, isAIResponding,
                 produced,  mic, speaker, calls, played, chunkSince>>

\* ai.live.connect rejects. Server: the catch of the start-voice-session handler.
\* CLI: runLiveVoice().catch, process.exit(1).
ConnectFailed(s) ==
  /\ Alive
  /\ pending[s]
  /\ conn[s] = "connecting"
  /\ conn' = [conn EXCEPT ![s] = "failed"]
  /\ pending' = [pending EXCEPT ![s] = FALSE]
  /\ IF mode = "server"
     THEN /\ out' = <<Emit(owner[s], "error")>>
          /\ proc' = proc
     ELSE /\ out' = <<Emit(Cli, "console.error"), Emit(Cli, "exit")>>
          /\ proc' = "exited"
  /\ upcalls' = <<>>
  /\ last' = Event("connect-failed", s, owner[s])
  /\ UNCHANGED <<mode, docVars, signalled, serverVars, owner, isConnected, isAIResponding, produced,
                  mic, speaker, calls, played, chunkSince>>

\* ---- calls on the upstream session ----

\* session.close(): an open connection starts closing.
ConnAfterCalls(cn, ups) ==
  [s \in Handles |->
     IF cn[s] = "open" /\ \E i \in 1..Len(ups) : ups[i].s = s /\ ups[i].what = "close"
     THEN "closing" ELSE cn[s]]

\* The end-of-input and close calls a handler made, added to the session's record.
CallsAfter(cl, ups) ==
  [s \in Handles |->
     cl[s] \o [i \in 1..Len(SelectSeq(ups, LAMBDA u : u.s = s /\ u.what # "audio")) |->
                 SelectSeq(ups, LAMBDA u : u.s = s /\ u.what # "audio")[i].what]]

\* ---- cleanupAndExit (CLI) ----

\* A cleanup that forgets the microphone.
CleanupDeviceEmits_SpeakerOnly ==
  IF speaker = "open" THEN <<Emit(Cli, "speaker.end")>> ELSE <<>>

\* micInstance.stop(), speaker.end() unless destroyed.
CleanupDeviceEmits ==
  <<Emit(Cli, "mic.stop")>> \o (IF speaker = "open" THEN <<Emit(Cli, "speaker.end")>> ELSE <<>>)

\* if (session && isConnected) session.close()
CleanupUpcalls(s) == IF isConnected[s] THEN <<UpCall(s, "close", 0)>> ELSE <<>>

\* cleanupAndExit after the calls `before` (SIGINT's end-of-input) and the emits
\* `said`. While the connect is still awaited, `session` is in its temporal dead
\* zone: reading it throws a ReferenceError after the devices were stopped, and
\* the process dies of the uncaught exception without closing the session.
cleanupAndExit(s, said, before) ==
  /\ mic' = MicAfter(mic, CleanupDeviceEmits)
  /\ speaker' = "ended"
  /\ IF pending[s]
     THEN /\ out' = said \o CleanupDeviceEmits
          /\ upcalls' = before
          /\ proc' = "crashed"
          /\ UNCHANGED isConnected
     ELSE /\ out' = said \o CleanupDeviceEmits \o <<Emit(Cli, "exit")>>
          /\ upcalls' = before \o CleanupUpcalls(s)
          /\ proc' = "exited"
          /\ isConnected' = [isConnected EXCEPT ![s] = FALSE]
  /\ conn' = ConnAfterCalls(conn, upcalls')
  /\ calls' = CallsAfter(calls, upcalls')

\* ---- onerror, onclose ----

\* callbacks.onerror. Server: the error is emitted to the socket and nothing else
\* happens. CLI: cleanupAndExit.
OnError(s) ==
  /\ Alive
  /\ conn[s] \in {"open", "closing"}
  /\ IF mode = "server"
     THEN /\ out' = <<Emit(owner[s], "voice-error")>>
          /\ upcalls' = <<>>
          /\ UNCHANGED <<conn, isConnected, calls, cliVars>>
     ELSE cleanupAndExit(s, <<Emit(Cli, "console.error")>>, <<>>)
  /\ chunkSince' = [chunkSince EXCEPT ![s] = FALSE]
  /\ last' = Event("error", s, owner[s])
  /\ UNCHANGED <<mode, docVars, signalled, serverVars, owner, pending, isAIResponding, produced, played>>


\* One isConnected flag shared by all sessions.
ConnectedAfterClose_Shared(flags, s) == [x \in Handles |-> FALSE]

\* An onclose that leaves isConnected set.
ConnectedAfterClose_Kept(flags, s) == flags

\* isConnected = false in onclose.
ConnectedAfterClose(flags, s) == [flags EXCEPT ![s] = FALSE]

\* callbacks.onclose.
OnClose(s) ==
  /\ Alive
  /\ conn[s] \in {"open", "closing"}
  /\ conn' = [conn EXCEPT ![s] = "closed"]
  /\ isConnected' = ConnectedAfterClose(isConnected, s)
  /\ out' = <<Emit(owner[s], IF mode = "server" THEN "voice-disconnected" ELSE "console.log")>>
  /\ upcalls' = <<>>
  /\ chunkSince' = [chunkSince EXCEPT ![s] = FALSE]
  /\ last' = Event("close", s, owner[s])
  /\ UNCHANGED <<mode, docVars, signalled, serverVars, owner, pending, isAIResponding, produced, cliVars, calls, played>>

\* ---- frames ----


\* A gate that forgets the turn state.
GateOpen_NoTurnCheck(s) == s # 0 /\ isConnected[s]

\* The condition under which a frame is passed on: the session is there (server:
\* an entry of activeVoiceSessions), connected, and the AI is not responding.
GateOpen(s) == s # 0 /\ isConnected[s] /\ ~isAIResponding[s]

\* A frame of a connection without a session goes to the first session.
FrameUpcalls_Fallback(s, f, fail) ==
  IF s = 0 THEN <<UpCall(1, "audio", f)>>
  ELSE IF GateOpen(s) /\ ~fail THEN <<UpCall(s, "audio", f)>> ELSE <<>>

\* A frame whose send throws is passed on all the same.
FrameUpcalls_IgnoreFail(s, f, fail) ==
  IF GateOpen(s) THEN <<UpCall(s, "audio", f)>> ELSE <<>>

\* What the frame handler does with frame f for session s (0: no session).
\* sendRealtimeInput throws on a payload it cannot encode (fail): the catch
\* reports it and the frame is gone.
FrameUpcalls(s, f, fail) ==
  IF GateOpen(s) /\ ~fail THEN <<UpCall(s, "audio", f)>> ELSE <<>>

\* socket.on("audio-data").
AudioData(c, f, fail) ==
  LET vs == activeVoiceSessions[c] IN
  /\ mode = "server"
  /\ sock[c] = "up"
  /\ fail => GateOpen(vs)
  /\ upcalls' = FrameUpcalls(vs, f, fail)
  /\ out' = IF GateOpen(vs) /\ fail THEN <<Emit(c, "error")>> ELSE <<>>
  /\ last' = FrameEvent(vs, c, f)
  /\ UNCHANGED <<mode, docVars, signalled, serverVars, owner, conn, pending, isConnected, isAIResponding,
                 produced, cliVars, calls, played, chunkSince>>

\* micStream.on("data"). The handler is registered once the connect has resolved.
\* A chunk the stream had buffered may still be delivered after pause().
MicData(s, f, fail) ==
  /\ mode = "cli"
  /\ proc = "running"
  /\ conn[s] # "none"
  /\ mic \in {"running", "paused"}
  /\ fail => GateOpen(s)
  /\ upcalls' = FrameUpcalls(s, f, fail)
  /\ out' = IF GateOpen(s) /\ fail THEN <<Emit(Cli, "console.error")>> ELSE <<>>
  /\ last' = FrameEvent(s, Cli, f)
  /\ UNCHANGED <<mode, docVars, signalled, serverVars, owner, conn, pending, isConnected, isAIResponding,
                 produced, cliVars, calls, played, chunkSince>>

\* ---- stop, disconnect, SIGINT ----

\* A stop that does not look at isConnected.
StopUpcalls_Unconditional(s) == <<UpCall(s, "eoi", 0), UpCall(s, "close", 0)>>

\* stop-voice-session: end-of-input, then close, if the session is connected.
StopUpcalls(s) ==
  IF isConnected[s] THEN <<UpCall(s, "eoi", 0), UpCall(s, "close", 0)>> ELSE <<>>

\* A disconnect that leaves the upstream session as it is.
DisconnectUpcalls_NoClose(s) == <<>>

\* disconnect: close if the session is connected.
DisconnectUpcalls(s) == IF isConnected[s] THEN <<UpCall(s, "close", 0)>> ELSE <<>>


\* A stop that leaves the entry in the map.
RegistryAfterDelete_Kept(reg, c) == reg

\* activeVoiceSessions.delete(socket.id)
RegistryAfterDelete(reg, c) == [reg EXCEPT ![c] = 0]

\* socket.on("stop-voice-session").
StopVoiceSession(c) ==
  LET vs == activeVoiceSessions[c] IN
  /\ mode = "server"
  /\ sock[c] = "up"
  /\ IF vs # 0
     THEN /\ upcalls' = StopUpcalls(vs)
          /\ activeVoiceSessions' = RegistryAfterDelete(activeVoiceSessions, c)
     ELSE /\ upcalls' = <<>>
          /\ UNCHANGED activeVoiceSessions
  /\ conn' = ConnAfterCalls(conn, upcalls')
  /\ calls' = CallsAfter(calls, upcalls')
  /\ out' = <<>>
  /\ last' = Event("stop", vs, c)
  /\ UNCHANGED <<mode, docVars, signalled, agentSessions, sock, owner, pending, isConnected, isAIResponding,
                 produced,  cliVars, played, chunkSince>>

\* socket.on("disconnect").
Disconnect(c) ==
  LET vs == activeVoiceSessions[c] IN
  /\ mode = "server"
  /\ sock[c] = "up"
  /\ sock' = [sock EXCEPT ![c] = "down"]
  /\ IF vs # 0
     THEN /\ upcalls' = DisconnectUpcalls(vs)
          /\ activeVoiceSessions' = RegistryAfterDelete(activeVoiceSessions, c)
     ELSE /\ upcalls' = <<>>
          /\ UNCHANGED activeVoiceSessions
  /\ conn' = ConnAfterCalls(conn, upcalls')
  /\ calls' = CallsAfter(calls, upcalls')
  /\ out' = <<>>
  /\ last' = Event("disconnect", vs, c)
  /\ UNCHANGED <<mode, docVars, signalled, agentSessions, owner, pending, isConnected, isAIResponding,
                 produced,  cliVars, played, chunkSince>>

\* if (session && isConnected) await session.sendRealtimeInput({audioStreamEnd})
SigintUpcalls(s) == IF isConnected[s] THEN <<UpCall(s, "eoi", 0)>> ELSE <<>>

\* process.on("SIGINT"): registered once the connect has resolved. The awaited
\* call returns no promise, so cleanupAndExit follows before any other event.
Sigint(s) ==
  /\ mode = "cli"
  /\ proc = "running"
  /\ conn[s] # "none"
  /\ cleanupAndExit(s, <<>>, SigintUpcalls(s))
  /\ last' = Event("sigint", s, Cli)
  /\ UNCHANGED <<mode, docVars, signalled, serverVars, owner, pending, isAIResponding, produced, played, chunkSince>>

\* SIGINT while the connect is awaited: no handler yet, the process is killed.
SigintDefault ==
  /\ mode = "cli"
  /\ proc = "connecting"
  /\ proc' = "killed"
  /\ out' = <<>>
  /\ upcalls' = <<>>
  /\ last' = Event("sigint", 0, Cli)
  /\ UNCHANGED <<mode, docVars, signalled, serverVars, owner, conn, pending, isConnected, isAIResponding,
                 produced,  mic, speaker, calls, played, chunkSince>>

\* ---- device errors (CLI) ----

\* micStream.on("error"): registered once the connect has resolved; it logs.
MicError(s) ==
  /\ mode = "cli"
  /\ proc = "running"
  /\ conn[s] # "none"
  /\ mic \in {"running", "paused"}
  /\ out' = <<Emit(Cli, "console.error")>>
  /\ upcalls' = <<>>
  /\ last' = Event("mic-error", s, Cli)
  /\ UNCHANGED <<mode, docVars, signalled, serverVars, owner, conn, pending, isConnected, isAIResponding,
                 produced, cliVars, calls, played, chunkSince>>

\* speaker.on("error"): registered when the speaker is made; it logs.
SpeakerError(s) ==
  /\ mode = "cli"
  /\ Alive
  /\ conn[s] # "none"
  /\ speaker = "open"
  /\ out' = <<Emit(Cli, "console.error")>>
  /\ upcalls' = <<>>
  /\ last' = Event("speaker-error", s, Cli)
  /\ UNCHANGED <<mode, docVars, signalled, serverVars, owner, conn, pending, isConnected, isAIResponding,
                 produced, cliVars, calls, played, chunkSince>>

\* One relay session: the CLI process, or the first client of the server and
\* the one session it starts.
Next ==
  \/ \E c \in {"sockA"} : Connection(c)
  \/ \E k \in SessionIds : StoreAgentSession(k)
  \/ \E c \in {"sockA"}, k \in SessionIds \cup {"missing"} : StartVoiceSession(c, k, {1})
  \/ \E s \in Handles : OnOpen(s)
  \/ \E s \in Handles : ConnectResolved(s)
  \/ \E s \in Handles : ConnectFailed(s)
  \/ \E s \in Handles, m \in WellFormed : OnMessage(s, m, MaxChunks)
  \/ \E s \in Handles : OnError(s)
  \/ \E s \in Handles : OnClose(s)
  \/ \E c \in {"sockA"}, f \in Frames, fail \in BOOLEAN : AudioData(c, f, fail)
  \/ \E s \in Handles, f \in Frames, fail \in BOOLEAN : MicData(s, f, fail)
  \/ \E c \in {"sockA"} : StopVoiceSession(c)
  \/ \E c \in {"sockA"} : Disconnect(c)
  \/ \E s \in Handles : Sigint(s)
  \/ SigintDefault
  \/ \E s \in Handles : MicError(s)
  \/ \E s \in Handles : SpeakerError(s)

Spec == Init /\ [][Next]_vars

\* The server with its clients and MaxSessions voice sessions; one audio chunk.
InitFanout == Init /\ mode = "server"

NextFanout ==
  \/ \E c \in Sockets : Connection(c)
  \/ \E k \in SessionIds : StoreAgentSession(k)
  \/ \E c \in Sockets, k \in SessionIds \cup {"missing"} : StartVoiceSession(c, k, Handles)
  \/ \E s \in Handles : OnOpen(s)
  \/ \E s \in Handles : ConnectResolved(s)
  \/ \E s \in Handles : ConnectFailed(s)
  \/ \E s \in Handles, m \in ShortMessages : OnMessage(s, m, 1)
  \/ \E s \in Handles : OnError(s)
  \/ \E s \in Handles : OnClose(s)
  \/ \E c \in Sockets, f \in {1}, fail \in BOOLEAN : AudioData(c, f, fail)
  \/ \E c \in Sockets : StopVoiceSession(c)
  \/ \E c \in Sockets : Disconnect(c)

SpecFanout == InitFanout /\ [][NextFanout]_vars

\* ---- the system instruction ----

\* A text is a sequence of pieces: a piece is a letter or one of the fixed
\* strings of the template, and joining texts is joining their sequences, so
\* two equal sequences are equal texts. What a client sends as a document's
\* name or content (POST /api/documents takes them as they come) is any text,
\* the template's own strings included.
DocHead == "\n=== DOCUMENT: "
DocMid == " ===\n"
DocEnd == "\n============================\n"
Chars == {"a", DocMid}
Strings == UNION {[1..n -> Chars] : n \in 0..MaxStrLen}
Docs == {[name |-> n, content |-> c] : n \in Strings, c \in Strings}
DocLists == UNION {[1..n -> Docs] : n \in 0..MaxDocs}
AgentType == <<"a">>

\* documents.map(doc => `\n=== DOCUMENT: ${doc.name} ===\n${doc.content}\n===...===\n`)
DocText(doc) == <<DocHead>> \o doc.name \o <<DocMid>> \o doc.content \o <<DocEnd>>

\* Array.prototype.join
RECURSIVE Join(_, _)
Join(texts, sep) ==
  IF texts = <<>> THEN <<>>
  ELSE IF Len(texts) = 1 THEN texts[1]
  ELSE texts[1] \o sep \o Join(Tail(texts), sep)

\* The template around the documents: the role with the agent type, the number
\* of documents, the library, the guidelines.
generateSystemInstruction(sessionData) ==
  LET documentContent ==
        Join([i \in 1..Len(sessionData.documents) |-> DocText(sessionData.documents[i])],
             <<"\n">>)
  IN  <<"# VOICE AGENT ASSISTANT ... You are a professional ">>
      \o sessionData.agentType
      \o <<" voice assistant. ... through ">>
      \o <<ToString(Len(sessionData.documents))>>
      \o <<" uploaded documents. ... ## DOCUMENT LIBRARY:\n">>
      \o documentContent
      \o <<"\n\n## CONVERSATION GUIDELINES ...">>

\* createVoiceSession builds the instruction of the session data it was given.
BuildInstruction ==
  /\ systemInstruction = <<>>
  /\ systemInstruction' =
       generateSystemInstruction([agentType |-> AgentType, documents |-> documents])
  /\ last' = Event("instruction", 0, "none")
  /\ out' = <<>>
  /\ upcalls' = <<>>
  /\ UNCHANGED <<mode, serverVars, owner, conn, pending, isConnected, isAIResponding,
                 produced, cliVars, calls, played, chunkSince, signalled, documents>>

\* generateSystemInstruction on every list of up to MaxDocs documents.
InitInstruction ==
  /\ InitRelay
  /\ mode = "server"
  /\ documents \in DocLists
  /\ systemInstruction = <<>>

NextInstruction == BuildInstruction

SpecInstruction == InitInstruction /\ [][NextInstruction]_vars

\* ======================= properties =======================

Count(emits, ev) == Cardinality({i \in 1..Len(emits) : emits[i].ev = ev})
AudioCalls(ups) == {i \in 1..Len(ups) : ups[i].what = "audio"}
Created == {s \in Handles : conn[s] # "none"}
MessageKinds == {"audio", "turnComplete", "usage", "none"}
UpstreamKinds == MessageKinds \cup {"open", "error", "close"}

\* What the program holds and what it has done to its surroundings: all but the
\* record of the last step.
effects == <<agentSessions, sock, activeVoiceSessions, owner, conn, pending,
             isConnected, isAIResponding, mic, speaker, proc, calls, played>>

\* C1: a session is AIResponding exactly when an audio chunk was handled since
\* the last connect, turn-complete, error or close. (Fails: see C3.)
C1_RespondingIffChunkSince ==
  \A s \in Created : Alive => (isAIResponding[s] <=> chunkSince[s])

\* C2: a frame that arrives while the session is AIResponding is not sent
\* upstream, and an audio frame is only ever sent in the step in which it
\* arrives (none is kept for later).
C2_NoForwardWhileResponding ==
  [][/\ \A i \in AudioCalls(upcalls') :
          /\ ~isAIResponding[upcalls'[i].s]
          /\ last'.kind = "audio-data"
          /\ upcalls'[i].frame = last'.frame
     /\ (last'.kind = "audio-data" /\ last'.s # 0 /\ isAIResponding[last'.s])
          => upcalls' = <<>>]_vars

C2_FrameDroppedWhileResponding ==
  /\ last.kind = "audio-data"
  /\ last.s # 0
  /\ isConnected[last.s]
  /\ isAIResponding[last.s]
  /\ upcalls = <<>>

\* C3: after an upstream error or close the session is Idle and capture is not
\* muted, and no session whose upstream is gone is AIResponding. (Fails.)
C3_FailSafeIdle ==
  /\ (last.kind \in {"error", "close"} /\ Alive)
       => (~isAIResponding[last.s] /\ mic # "paused")
  /\ \A s \in Created : (Alive /\ conn[s] = "closed") => ~isAIResponding[s]

\* C4: the mute side effect is produced once per Idle -> AIResponding
\* transition and at no other time.
C4_MuteOncePerTransition ==
  [][Count(out', MuteEv)
       = Cardinality({s \in Handles : ~isAIResponding[s] /\ isAIResponding'[s]})]_vars

C4_ChunkWhileResponding ==
  /\ last.kind = "audio"
  /\ isAIResponding[last.s]
  /\ Count(out, MuteEv) = 0
  /\ Count(out, "audio") > 0

\* C5: a turn-complete handled while Idle changes nothing and emits nothing;
\* an unmute side effect is produced once per AIResponding -> Idle transition
\* and at no other time.
C5_TurnCompleteWhileIdleNoOp ==
  [][/\ (last'.kind = "turnComplete" /\ ~isAIResponding[last'.s])
          => (out' = <<>> /\ upcalls' = <<>> /\ UNCHANGED effects)
     /\ Count(out', UnmuteEv)
          = Cardinality({s \in Handles : isAIResponding[s] /\ ~isAIResponding'[s]})]_vars

C5_TurnCompleteWhileIdle ==
  /\ last.kind = "turnComplete"
  /\ isConnected[last.s]
  /\ out = <<>>

\* C6: the chunks handed to playback / emit are the chunks the upstream sent,
\* in its order, each once; the unmute signal is given only by the handling of
\* a turn-complete, and no frame is forwarded between a chunk and the
\* turn-complete that follows it.
C6_ChunksInOrderResumeAfterTurn ==
  [][/\ \A s \in Handles : played'[s] = [i \in 1..produced'[s] |-> i]
     /\ Count(out', UnmuteEv) > 0 => last'.kind = "turnComplete"
     /\ \A i \in AudioCalls(upcalls') : ~chunkSince[upcalls'[i].s]]_vars

C6_TurnOfSeveralChunksEnded ==
  /\ last.kind = "turnComplete"
  /\ Count(out, UnmuteEv) = 1
  /\ Len(played[last.s]) > MaxParts

C8_FanoutIsolation ==
  [][/\ last'.kind \in {"error", "close"} =>
          /\ \A s \in Handles \ {last'.s} :
               /\ isConnected'[s] = isConnected[s]
               /\ isAIResponding'[s] = isAIResponding[s]
               /\ conn'[s] = conn[s]
          /\ activeVoiceSessions' = activeVoiceSessions
          /\ \A i \in 1..Len(out') : out'[i].to = owner[last'.s]
     /\ (/\ last'.kind = "audio-data"
         /\ last'.s # 0
         /\ isConnected[last'.s]
         /\ ~isAIResponding[last'.s])
          => \/ upcalls' = <<UpCall(last'.s, "audio", last'.frame)>>
             \/ out' = <<Emit(last'.c, "error")>>]_vars

C8_ForwardedAfterOtherClosed ==
  /\ last.kind = "audio-data"
  /\ Len(upcalls) = 1
  /\ \E s \in Created : s # last.s /\ owner[s] # last.c /\ conn[s] = "closed"

\* C9: a frame from a connection is sent only to the session recorded for that
\* connection, which that connection owns; what the handling of a session's
\* upstream event emits goes to the session's own connection only.
C9_NoCrossTalk ==
  [][/\ \A i \in AudioCalls(upcalls') :
          /\ last'.kind = "audio-data"
          /\ upcalls'[i].s = activeVoiceSessions[last'.c]
          /\ owner[upcalls'[i].s] = last'.c
     /\ last'.kind \in UpstreamKinds =>
          \A i \in 1..Len(out') : out'[i].to = owner[last'.s]]_vars

C9_TwoClientsOneSpeaking ==
  /\ last.kind = "audio"
  /\ Count(out, "audio") = 1
  /\ \E s \in Created :
       /\ owner[s] # owner[last.s]
       /\ isConnected[s]
       /\ activeVoiceSessions[owner[s]] = s

\* C10: an upstream error closes the upstream session, leaves the session not
\* connected and reports the error to the owner. (Fails in server mode, also
\* when the CLI's crash on an error during the connect is left aside.)
C10_ErrorClosesSession ==
  (last.kind = "error" /\ proc # "crashed") =>
     /\ ~isConnected[last.s]
     /\ \E j \in 1..Len(calls[last.s]) : calls[last.s][j] = "close"
     /\ Len(out) > 0 /\ out[1].ev \in {"voice-error", "console.error"}

\* The registry and the sessions: what a handler of the server works on.
sessionsState == <<agentSessions, activeVoiceSessions, owner, conn, pending,
                   isConnected, isAIResponding, calls, played>>

HasCall(ups, s, what) == \E i \in 1..Len(ups) : ups[i] = UpCall(s, what, 0)

C12_NoEntryAfterDisconnect ==
  \A c \in Sockets :
    (sock[c] = "down" /\ \A s \in Handles : owner[s] = c => ~pending[s])
      => /\ activeVoiceSessions[c] = 0
         /\ \A s \in Handles : owner[s] = c => conn[s] \notin {"connecting", "open"}

\* C13: a frame from a connection that has no entry in the registry is dropped:
\* nothing is called upstream, nothing is emitted, and the registry, every
\* session and every connection stay as they were, so that whatever event could
\* be handled before can be handled after.
C13_UnknownSessionFrameDropped ==
  [][(last'.kind = "audio-data" /\ activeVoiceSessions[last'.c] = 0) =>
       /\ last'.s = 0
       /\ upcalls' = <<>>
       /\ out' = <<>>
       /\ UNCHANGED <<sessionsState, sock, produced, chunkSince, cliVars>>]_vars

C13_FrameWithoutEntryOtherConnected ==
  /\ last.kind = "audio-data"
  /\ last.s = 0
  /\ upcalls = <<>>
  /\ \E s \in Created :
       /\ owner[s] # last.c
       /\ activeVoiceSessions[owner[s]] = s
       /\ isConnected[s]

\* C14: a start-voice-session whose session id is not stored reports an error
\* to the requesting connection, creates no upstream session and changes
\* neither registry nor sessions; only a start that finds its id creates an
\* upstream session, exactly one, owned by the requesting connection; and when
\* its connect has completed the registry maps that connection to the session.
C14_StartNotFoundOrOneSession ==
  [][/\ last'.kind = "start-notfound" =>
          /\ out' = <<Emit(last'.c, "error")>>
          /\ upcalls' = <<>>
          /\ UNCHANGED <<sessionsState, sock>>
     /\ last'.kind = "start" =>
          /\ last'.s \in Handles
          /\ conn[last'.s] = "none" /\ conn'[last'.s] = "connecting"
          /\ owner'[last'.s] = last'.c
          /\ \A s \in Handles \ {last'.s} : conn'[s] = conn[s] /\ owner'[s] = owner[s]
          /\ activeVoiceSessions' = activeVoiceSessions
     /\ (\E s \in Handles : conn[s] = "none" /\ conn'[s] # "none")
          => (last'.kind = "start" /\ agentSessions # {})
     /\ (last'.kind = "resolved" /\ mode = "server") =>
          /\ activeVoiceSessions'[owner[last'.s]] = last'.s
          /\ out' = <<Emit(owner[last'.s], "voice-session-started")>>]_vars

C14_NotFoundAfterRecordedStart ==
  /\ last.kind = "start-notfound"
  /\ out = <<Emit(last.c, "error")>>
  /\ agentSessions # {}
  /\ activeVoiceSessions[last.c] # 0
  /\ owner[activeVoiceSessions[last.c]] = last.c

\* C15: a connection owns at most one upstream session that is connecting or
\* open. (Fails: a second start-voice-session of a connection is accepted.)
C15_OneOpenSessionPerConnection ==
  \A c \in Sockets :
    Cardinality({s \in Handles : owner[s] = c /\ conn[s] \in {"connecting", "open"}}) <= 1

\* C16: in the CLI, a handled interrupt signal has run the whole stop path
\* once (end-of-input and close if connected, capture stopped, playback ended),
\* and in no state is the upstream session closed while the capture device is
\* still started. (Fails: onclose leaves the microphone as it is.)
C16_ShutdownNeverPartial ==
  mode = "cli" =>
    /\ (last.kind = "sigint" /\ last.s # 0) =>
         /\ mic = "stopped" /\ speaker = "ended" /\ proc = "exited"
         /\ upcalls \in {<<>>, <<UpCall(last.s, "eoi", 0), UpCall(last.s, "close", 0)>>}
         /\ calls[last.s] = [i \in 1..Len(upcalls) |-> upcalls[i].what]
    /\ \A s \in Created : conn[s] = "closed" => mic \notin {"running", "paused"}

\* A stop, disconnect or interrupt signal handled for a session whose upstream
\* is closing or closed.
StopOfClosed ==
  /\ last'.kind \in {"stop", "disconnect", "sigint"}
  /\ last'.s # 0
  /\ conn[last'.s] \in {"closing", "closed"}

\* C17 as stated: a stop, disconnect or shutdown of a session that is closing
\* or closed calls nothing upstream and leaves the registry and every session
\* unchanged. (Fails: the handler still removes the connection's entry.)
C17_StopOfClosedIsNoOp ==
  [][StopOfClosed =>
       /\ upcalls' = <<>>
       /\ activeVoiceSessions' = activeVoiceSessions
       /\ UNCHANGED <<owner, conn, isConnected, isAIResponding, calls>>]_vars

\* C17 amended: a stop, disconnect or shutdown of a session that is closing or
\* closed calls nothing upstream and changes no session; in the registry it
\* removes the entry of its own connection and nothing else; and no end-of-input
\* or close call is ever made on a session that is not open or has been closed
\* by a call before.
C17_StopOfClosedCallsNothing ==
  [][/\ StopOfClosed =>
          /\ upcalls' = <<>>
          /\ \A c \in Sockets \ {last'.c} : activeVoiceSessions'[c] = activeVoiceSessions[c]
          /\ mode = "server" => activeVoiceSessions'[last'.c] = 0
          /\ UNCHANGED <<owner, conn, isConnected, isAIResponding, calls>>
     /\ \A i \in 1..Len(upcalls') :
          upcalls'[i].what \in {"eoi", "close"} =>
            /\ conn[upcalls'[i].s] = "open"
            /\ ~(\E j \in 1..Len(calls[upcalls'[i].s]) : calls[upcalls'[i].s][j] = "close")]_vars

C17_StopAfterUpstreamClosed ==
  /\ last.kind = "stop"
  /\ last.s # 0
  /\ conn[last.s] = "closed"
  /\ upcalls = <<>>
  /\ activeVoiceSessions[last.c] = 0

\* C18: a frame is sent upstream only for a session whose upstream connection
\* is open: onopen has been handled (isConnected is set) and neither onclose
\* nor a close call has; a frame arriving for a session in any other state
\* is not sent.
C18_SendOnlyWhileConnected ==
  [][/\ \A i \in AudioCalls(upcalls') :
          /\ conn[upcalls'[i].s] = "open"
          /\ isConnected[upcalls'[i].s]
     /\ (last'.kind = "audio-data" /\ last'.s # 0 /\ conn[last'.s] # "open")
          => upcalls' = <<>>]_vars

C18_FrameAfterClosedDropped ==
  /\ last.kind = "audio-data"
  /\ last.s # 0
  /\ conn[last.s] = "closed"
  /\ ~isAIResponding[last.s]
  /\ upcalls = <<>>

\* The report of the catch around the send of a frame.
SendErrorEmit(c) == Emit(c, IF mode = "server" THEN "error" ELSE "console.error")

\* C19: when the send of a frame fails, the failure is reported, the frame is
\* not sent, and connection, turn state, registry and devices stay as they
\* were with the upstream still open, so the gate is still open for the next
\* frame; and a frame arriving while connected and Idle is either sent or its
\* send has failed.
C19_SendErrorRecovered ==
  [][/\ (last'.kind = "audio-data" /\ out' # <<>>) =>
          /\ out' = <<SendErrorEmit(last'.c)>>
          /\ upcalls' = <<>>
          /\ UNCHANGED <<sessionsState, sock, produced, cliVars>>
          /\ conn'[last'.s] = "open"
          /\ isConnected'[last'.s] /\ ~isAIResponding'[last'.s]
     /\ (/\ last'.kind = "audio-data"
         /\ last'.s # 0
         /\ isConnected[last'.s]
         /\ ~isAIResponding[last'.s])
          => \/ (upcalls' = <<UpCall(last'.s, "audio", last'.frame)>> /\ out' = <<>>)
             \/ (upcalls' = <<>> /\ out' = <<SendErrorEmit(last'.c)>>)]_vars

C19_SendFailedGateStillOpen ==
  /\ last.kind = "audio-data"
  /\ out = <<SendErrorEmit(last.c)>>
  /\ upcalls = <<>>
  /\ conn[last.s] = "open"
  /\ isConnected[last.s] /\ ~isAIResponding[last.s]

C21_DeviceErrorStops ==
  last.kind \in {"mic-error", "speaker-error"} =>
     /\ Len(out) > 0 /\ out[1] = Emit(Cli, "console.error")
     /\ mic = "stopped"
     /\ speaker = "ended"
     /\ proc = "exited"
     /\ conn[last.s] # "open"

\* The notice of onclose: voice-disconnected to the socket, a log line.
CloseNoticeEv == IF mode = "server" THEN "voice-disconnected" ELSE "console.log"

\* C22: handling an upstream Closed event leaves the session closed and not
\* connected and gives its owner one notice, whether or not the close was
\* asked for locally; a session is closed by that event only and at most
\* once, and no other step gives the notice.
C22_ClosedOnceWithNotice ==
  [][/\ last'.kind = "close" =>
          /\ conn'[last'.s] = "closed"
          /\ ~isConnected'[last'.s]
          /\ out' = <<Emit(owner[last'.s], CloseNoticeEv)>>
     /\ \A s \in Handles :
          /\ (conn[s] # "closed" /\ conn'[s] = "closed")
               => (last'.kind = "close" /\ last'.s = s)
          /\ conn[s] = "closed" => (conn'[s] = "closed" /\ ~isConnected'[s])
     /\ Count(out', "voice-disconnected")
          = Cardinality({s \in Handles : conn[s] # "closed" /\ conn'[s] = "closed"
                                          /\ mode = "server"})]_vars

C22_RemoteCloseNotified ==
  /\ last.kind = "close"
  /\ calls[last.s] = <<>>
  /\ conn[last.s] = "closed"
  /\ ~isConnected[last.s]
  /\ out = <<Emit(owner[last.s], "voice-disconnected")>>

\* The first position after an occurrence of sub in text that starts at from
\* or later; 0 if there is none.
EndOfFirst(text, sub, from) ==
  LET starts == {p \in from..(Len(text) - Len(sub) + 1) :
                   \A j \in 1..Len(sub) : text[p + j - 1] = sub[j]}
  IN  IF starts = {} THEN 0
      ELSE (CHOOSE p \in starts : \A q \in starts : p <= q) + Len(sub)

\* The texts occur in the text one after the other, from position from on.
RECURSIVE InOrder(_, _, _)
InOrder(text, subs, from) ==
  \/ subs = <<>>
  \/ /\ EndOfFirst(text, Head(subs), from) # 0
     /\ InOrder(text, Tail(subs), EndOfFirst(text, Head(subs), from))

NamesAndContents(docs) ==
  [i \in 1..(2 * Len(docs)) |->
     IF i % 2 = 1 THEN docs[(i + 1) \div 2].name ELSE docs[i \div 2].content]

\* C23: the instruction holds every document's name and content as they are,
\* in the order of the list, and no other list of documents gives the same
\* instruction. (Fails: a name or content that holds the template's own
\* delimiter reads as another list.)
C23_InstructionTellsDocumentsApart ==
  systemInstruction # <<>> =>
     /\ InOrder(systemInstruction, NamesAndContents(documents), 1)
     /\ \A other \in DocLists :
          generateSystemInstruction([agentType |-> AgentType, documents |-> other])
             = systemInstruction
          => other = documents

UsageEv == IF mode = "server" THEN "token-usage" ELSE "console.log"

\* C24: whatever else it carries, a message with modelTurn parts is handled as
\* audio only (the session is AIResponding after it, no unmute, no usage
\* report); one without parts but with turnComplete as a turn-complete only;
\* one with neither but with usage as usage only; one with none of the three
\* changes nothing and emits nothing; and a session leaves AIResponding only by
\* a message with turnComplete and without parts.
C24_ClassifiedByPriority ==
  [][/\ \A s \in Handles, m \in WellFormed :
          OnMessage(s, m, MaxChunks) =>
            /\ m.hasParts =>
                 /\ isAIResponding'[s]
                 /\ Count(out', UnmuteEv) = 0
                 /\ Count(out', UsageEv) = 0
                 /\ Count(out', "audio") = DataCount(m.parts, Len(m.parts))
            /\ (~m.hasParts /\ m.turnComplete) =>
                 /\ ~isAIResponding'[s]
                 /\ Count(out', "audio") + Count(out', MuteEv) + Count(out', UsageEv) = 0
            /\ (~m.hasParts /\ ~m.turnComplete /\ m.usage) =>
                 /\ isAIResponding'[s] = isAIResponding[s]
                 /\ out' = <<Emit(owner[s], UsageEv)>>
            /\ (~m.hasParts /\ ~m.turnComplete /\ ~m.usage) =>
                 /\ out' = <<>>
                 /\ upcalls' = <<>>
                 /\ UNCHANGED effects
     /\ \A s \in Handles :
          (isAIResponding[s] /\ ~isAIResponding'[s]) =>
             \E m \in WellFormed :
               ~m.hasParts /\ m.turnComplete /\ OnMessage(s, m, MaxChunks)]_vars

C24_AudioStartedTurn ==
  /\ last.kind = "audio"
  /\ isAIResponding[last.s]
  /\ Count(out, MuteEv) = 1
  /\ Count(out, UnmuteEv) = 0
  /\ Count(out, "audio") = MaxParts

\* The mute / unmute signals and the chunks among the emits come in turn-taking
\* order after the signal given last: a mute only after an unmute (or as the
\* first), an unmute and a chunk only after a mute.
RECURSIVE Alternates(_, _)
Alternates(sig, emits) ==
  \/ emits = <<>>
  \/ /\ Head(emits).ev = MuteEv => ~sig
     /\ Head(emits).ev = UnmuteEv => sig
     /\ Head(emits).ev = "audio" => sig
     /\ Alternates(SignalAfter(sig, <<Head(emits)>>), Tail(emits))

\* C25: in what is emitted for one session, ai-speaking-start and
\* ai-speaking-end alternate, the first being a start, and every audio chunk
\* comes after a start and before the end that follows it; only the handling
\* of the session's own messages emits any of them.
C25_StartEndAlternate ==
  [][/\ last'.kind \in MessageKinds => Alternates(signalled[last'.s], out')
     /\ last'.kind \notin MessageKinds =>
          Count(out', MuteEv) + Count(out', UnmuteEv) + Count(out', "audio") = 0
     /\ \A s \in Handles : conn[s] = "none" => ~signalled'[s]]_vars

C25_SecondTurnStarted ==
  /\ mode = "server"
  /\ last.kind = "audio"
  /\ Len(out) > 1
  /\ out[1] = Emit(owner[last.s], "ai-speaking-start")
  /\ Count(out, "audio") > 0
  /\ Len(played[last.s]) > Count(out, "audio")

\* C26: a message that carries usage data and neither parts nor turnComplete
\* is handled by reporting the token count to the session's owner and by
\* nothing else: turn state, connection, registry, devices and what was played
\* stay as they were, nothing is called upstream, and no mute, unmute or audio
\* is emitted; the token count is reported by no other step of the server.
C26_UsageOnlyReports ==
  [][/\ \A s \in Handles, m \in WellFormed :
          (~m.hasParts /\ ~m.turnComplete /\ m.usage /\ OnMessage(s, m, MaxChunks)) =>
             /\ last'.kind = "usage"
             /\ out' = <<Emit(owner[s], UsageEv)>>
             /\ upcalls' = <<>>
             /\ UNCHANGED <<effects, produced, signalled>>
     /\ last'.kind = "usage" =>
          Count(out', MuteEv) + Count(out', UnmuteEv) + Count(out', "audio") = 0
     /\ Count(out', "token-usage") > 0 => last'.kind = "usage"]_vars

C26_UsageDuringTurn ==
  /\ last.kind = "usage"
  /\ isAIResponding[last.s]
  /\ isConnected[last.s]
  /\ out = <<Emit(owner[last.s], "token-usage")>>
====
